---- MODULE Spec2Model ----
(***************************************************************************)
(* The /summarize request handler of VideoSummary.py: URL validation,     *)
(* audio download into temp/audio.<ext>, transcription, summarisation,    *)
(* exception mapping to HTTP responses and the cleanup of the audio file. *)
(* Strings the code inspects (URLs, transcripts, completions) are         *)
(* sequences of one-character strings; messages the code only passes on   *)
(* are TLA+ strings.                                                      *)
(***************************************************************************)
EXTENDS Integers, Sequences, FiniteSets, TLC

\* Number of requests the threaded server handles at once.
NumReqs == 2

Reqs == 1..NumReqs

\* The single-user deployment: one request in flight.
Solo == {1}

----------------------------------------------------------------------------
\* Characters and str.strip()

Whitespace == {" ", "\t", "\n"}

Digits == {"0", "1", "2", "3", "4", "5", "6", "7", "8", "9"}

LowerCase ==
    {"a", "b", "c", "d", "e", "f", "g", "h", "i", "j", "k", "l", "m", "n",
     "o", "p", "q", "r", "s", "t", "u", "v", "w", "x", "y", "z"}

UpperCase ==
    {"A", "B", "C", "D", "E", "F", "G", "H", "I", "J", "K", "L", "M", "N",
     "O", "P", "Q", "R", "S", "T", "U", "V", "W", "X", "Y", "Z"}

\* The letters of the inputs that re.IGNORECASE folds.
ToLower ==
    [c \in UpperCase |->
        CASE c = "A" -> "a" [] c = "B" -> "b" [] c = "C" -> "c"
          [] c = "D" -> "d" [] c = "E" -> "e" [] c = "F" -> "f"
          [] c = "G" -> "g" [] c = "H" -> "h" [] c = "I" -> "i"
          [] c = "J" -> "j" [] c = "K" -> "k" [] c = "L" -> "l"
          [] c = "M" -> "m" [] c = "N" -> "n" [] c = "O" -> "o"
          [] c = "P" -> "p" [] c = "Q" -> "q" [] c = "R" -> "r"
          [] c = "S" -> "s" [] c = "T" -> "t" [] c = "U" -> "u"
          [] c = "V" -> "v" [] c = "W" -> "w" [] c = "X" -> "x"
          [] c = "Y" -> "y" [] OTHER -> "z"]

Fold(c) == IF c \in UpperCase THEN ToLower[c] ELSE c

SetMin(S) == CHOOSE x \in S : \A y \in S : x <= y

SetMax(S) == CHOOSE x \in S : \A y \in S : y <= x

\* str.strip(): drop leading and trailing whitespace.
strip(s) ==
    LET keep == {i \in 1..Len(s) : s[i] \notin Whitespace}
    IN  IF keep = {} THEN <<>> ELSE SubSeq(s, SetMin(keep), SetMax(keep))

----------------------------------------------------------------------------
\* validate_youtube_url: youtube_regex.match(url) is not None.  The regex is
\* matched as a set of positions reached after each of its parts; re.match
\* anchors at the start of the string only.

\* Positions after the literal lit, matched case-insensitively from P.
AfterLit(s, P, lit) ==
    {p + Len(lit) : p \in
        {q \in P : /\ q + Len(lit) - 1 <= Len(s)
                   /\ \A i \in 1..Len(lit) : Fold(s[q + i - 1]) = lit[i]}}

\* (?: ... )? : the part may be skipped.
Optional(P, Q) == P \cup Q

\* \w
IsWordChar(c) == c \in LowerCase \cup UpperCase \cup Digits \cup {"_"}

\* [^&=%?\s/]
IsIdChar(c) == c \notin {"&", "=", "%", "?", "/"} \cup Whitespace

\* .+/ : one or more characters other than newline, then a slash.
AfterAnyThenSlash(s, P) ==
    {q + 1 : q \in
        {k \in 1..Len(s) :
            /\ s[k] = "/"
            /\ \E p \in P : /\ p < k
                            /\ \A i \in p..(k - 1) : s[i] # "\n"}}

\* \w+\?v= : one or more word characters, then "?v=".
AfterWordThenQuery(s, P) ==
    AfterLit(s,
        {k \in 1..(Len(s) + 1) :
            \E p \in P : /\ p < k
                         /\ \A i \in p..(k - 1) : IsWordChar(s[i])},
        <<"?", "v", "=">>)

IdLen == 11

validate_youtube_url(url) ==
    LET start  == {1}
        scheme == Optional(start,
                    AfterLit(url, start, <<"h", "t", "t", "p", ":", "/", "/">>)
                    \cup
                    AfterLit(url, start,
                             <<"h", "t", "t", "p", "s", ":", "/", "/">>))
        www    == Optional(scheme, AfterLit(url, scheme, <<"w", "w", "w", ".">>))
        site   == AfterLit(url, www, <<"y", "o", "u", "t", "u", "b", "e">>)
                  \cup AfterLit(url, www, <<"y", "o", "u", "t", "u">>)
                  \cup AfterLit(url, www,
                         <<"y", "o", "u", "t", "u", "b", "e", "-", "n", "o",
                           "c", "o", "o", "k", "i", "e">>)
        dot    == AfterLit(url, site, <<".">>)
        tld    == AfterLit(url, dot, <<"c", "o", "m">>)
                  \cup AfterLit(url, dot, <<"b", "e">>)
        slash  == AfterLit(url, tld, <<"/">>)
        prefix == Optional(slash,
                    AfterLit(url, slash,
                             <<"w", "a", "t", "c", "h", "?", "v", "=">>)
                    \cup AfterLit(url, slash, <<"e", "m", "b", "e", "d", "/">>)
                    \cup AfterLit(url, slash, <<"v", "/">>)
                    \cup AfterAnyThenSlash(url, slash)
                    \cup AfterWordThenQuery(url, slash))
    IN  \E p \in prefix :
            /\ p + IdLen - 1 <= Len(url)
            /\ \A i \in p..(p + IdLen - 1) : IsIdChar(url[i])

----------------------------------------------------------------------------
\* Submitted video_url values.

\* ''
UrlEmpty ==
    <<>>

\* '  '
UrlBlank ==
    <<" ", " ">>

\* 'https://www.youtube.com/watch?v=dQw4w9WgXcQ'
UrlWatch ==
    <<"h", "t", "t", "p", "s", ":", "/", "/", "w", "w", "w", ".", "y", "o",
      "u", "t", "u", "b", "e", ".", "c", "o", "m", "/", "w", "a", "t", "c",
      "h", "?", "v", "=", "d", "Q", "w", "4", "w", "9", "W", "g", "X", "c",
      "Q">>

\* ' https://youtu.be/dQw4w9WgXcQ\n'
UrlShortPadded ==
    <<" ", "h", "t", "t", "p", "s", ":", "/", "/", "y", "o", "u", "t", "u",
      ".", "b", "e", "/", "d", "Q", "w", "4", "w", "9", "W", "g", "X", "c",
      "Q", "\n">>

\* 'https://example.com/watch?v=dQw4w9WgXcQ'
UrlOtherHost ==
    <<"h", "t", "t", "p", "s", ":", "/", "/", "e", "x", "a", "m", "p", "l",
      "e", ".", "c", "o", "m", "/", "w", "a", "t", "c", "h", "?", "v", "=",
      "d", "Q", "w", "4", "w", "9", "W", "g", "X", "c", "Q">>

\* 'https://www.youtube.com/watch?v=short'
UrlShortId ==
    <<"h", "t", "t", "p", "s", ":", "/", "/", "w", "w", "w", ".", "y", "o",
      "u", "t", "u", "b", "e", ".", "c", "o", "m", "/", "w", "a", "t", "c",
      "h", "?", "v", "=", "s", "h", "o", "r", "t">>

\* 'YouTube.COM/embed/dQw4w9WgXcQ'
UrlEmbedCase ==
    <<"Y", "o", "u", "T", "u", "b", "e", ".", "C", "O", "M", "/", "e", "m",
      "b", "e", "d", "/", "d", "Q", "w", "4", "w", "9", "W", "g", "X", "c",
      "Q">>

\* 'youtube.com/dQw4w9WgXc'
UrlTenChars ==
    <<"y", "o", "u", "t", "u", "b", "e", ".", "c", "o", "m", "/", "d", "Q",
      "w", "4", "w", "9", "W", "g", "X", "c">>

\* 'ftp://youtube.com/watch?v=dQw4w9WgXcQ'
UrlFtp ==
    <<"f", "t", "p", ":", "/", "/", "y", "o", "u", "t", "u", "b", "e", ".",
      "c", "o", "m", "/", "w", "a", "t", "c", "h", "?", "v", "=", "d", "Q",
      "w", "4", "w", "9", "W", "g", "X", "c", "Q">>

\* 'youtube-nocookie.com/v/dQw4w9WgXcQ&t=1'
UrlNoCookie ==
    <<"y", "o", "u", "t", "u", "b", "e", "-", "n", "o", "c", "o", "o", "k",
      "i", "e", ".", "c", "o", "m", "/", "v", "/", "d", "Q", "w", "4", "w",
      "9", "W", "g", "X", "c", "Q", "&", "t", "=", "1">>

\* 'youtu.be/a/b/dQw4w9WgXcQ'
UrlDeepPath ==
    <<"y", "o", "u", "t", "u", ".", "b", "e", "/", "a", "/", "b", "/", "d",
      "Q", "w", "4", "w", "9", "W", "g", "X", "c", "Q">>

\* 'http://youtube.be/x_1?v=dQw4w9WgXcQ'
UrlWordQuery ==
    <<"h", "t", "t", "p", ":", "/", "/", "y", "o", "u", "t", "u", "b", "e",
      ".", "b", "e", "/", "x", "_", "1", "?", "v", "=", "d", "Q", "w", "4",
      "w", "9", "W", "g", "X", "c", "Q">>

\* 'see https://youtu.be/dQw4w9WgXcQ'
UrlInSentence ==
    <<"s", "e", "e", " ", "h", "t", "t", "p", "s", ":", "/", "/", "y", "o",
      "u", "t", "u", ".", "b", "e", "/", "d", "Q", "w", "4", "w", "9", "W",
      "g", "X", "c", "Q">>

Urls ==
    {UrlEmpty, UrlBlank, UrlWatch, UrlShortPadded, UrlOtherHost, UrlShortId,
     UrlEmbedCase, UrlTenChars, UrlFtp, UrlNoCookie, UrlDeepPath,
     UrlWordQuery, UrlInSentence}

\* The submissions used when several requests are in flight.
FewUrls == {UrlEmpty, UrlTenChars, UrlShortPadded}

----------------------------------------------------------------------------
\* Values

\* Python's None, for variables that otherwise hold a path.
None == "None"

\* A str or None, for text the code inspects.
NoneText == [isNone |-> TRUE, chars |-> <<>>]

Str(chars) == [isNone |-> FALSE, chars |-> chars]

\* "not text" of Python: None and "" are false.
Falsy(text) == text.isNone \/ text.chars = <<>>

\* An exception: its class and str(e).
Exc(type, msg) == [type |-> type, msg |-> msg]

ValueError(msg) == Exc("ValueError", msg)

\* isinstance(e, ValueError): the class and its subclasses.
IsValueError(e) == e.type \in {"ValueError", "UnicodeDecodeError"}

\* What the template is given as summary: a literal prefix, a message of
\* the program or of an exception, or the characters of a completion.
Fixed(msg) == [prefix |-> "", msg |-> msg, chars |-> <<>>]

ErrorOf(msg) == [prefix |-> "Error: ", msg |-> msg, chars |-> <<>>]

Completion(chars) == [prefix |-> "", msg |-> "", chars |-> chars]

Page(status, summary) == [status |-> status, summary |-> summary]

NoPage == Page(0, Fixed(""))

\* Text carried by the exceptions of the three external services.
RawDownloaderText == "ERROR: [youtube] dQw4w9WgXcQ: Video unavailable"

RawSpeechText == "Incorrect API key provided: sk-test"

RawCompletionText == "You exceeded your current quota (org-test)"

RawOsText == "[Errno 2] No such file or directory: 'temp/audio.m4a'"

RawTexts ==
    {RawDownloaderText, RawSpeechText, RawCompletionText, RawOsText}

----------------------------------------------------------------------------
\* The file system under temp/

Exts == {"m4a", "webm"}

\* With several requests in flight.
FewExts == {"m4a"}

\* outtmpl 'temp/audio.%(ext)s' filled in by prepare_filename.
prepare_filename(ext) ==
    CASE ext = "m4a"  -> "temp/audio.m4a"
      [] ext = "mp3"  -> "temp/audio.mp3"
      [] OTHER        -> "temp/audio.webm"

Paths == {prepare_filename(ext) : ext \in Exts}

\* owner: the request whose download wrote the file.
NoFile == [exists |-> FALSE, owner |-> 0, size |-> 0]

File(r, size) == [exists |-> TRUE, owner |-> r, size |-> size]

----------------------------------------------------------------------------
\* What the external services can answer.

\* extract_info: raises exc ("" when it returns), writes the file or not,
\* reports the extension ext.
DownloaderOutcomes(exts) ==
    [exc : {""}, ext : exts, wrote : BOOLEAN, size : {0, 1}]
    \cup [exc : {"DownloadError", "ValueError", "OSError"}, ext : exts,
          wrote : BOOLEAN, size : {1}]

\* openai.Audio.transcribe
TextHello == <<"h", "i", " ">>

TextBlank == <<" ", "\n">>

Transcripts == {NoneText, Str(<<>>), Str(TextBlank), Str(TextHello)}

FewTranscripts == {Str(TextBlank), Str(TextHello)}

SpeechOutcomes(texts) ==
    [exc : {""}, hasText : {TRUE}, text : texts]
    \cup [exc : {""}, hasText : {FALSE}, text : {NoneText}]
    \cup [exc : {"AuthenticationError", "RateLimitError", "APIError"},
          hasText : {FALSE}, text : {NoneText}]

\* openai.ChatCompletion.create
ContentPadded == <<" ", "o", "k", "\n">>

Contents == {NoneText, Str(<<>>), Str(ContentPadded), Str(<<"o", "k">>)}

FewContents == {Str(<<>>), Str(ContentPadded)}

CompletionOutcomes(contents) ==
    [exc : {""}, hasChoices : {TRUE}, content : contents]
    \cup [exc : {""}, hasChoices : {FALSE}, content : {NoneText}]
    \cup [exc : {"AuthenticationError", "RateLimitError", "APIError"},
          hasChoices : {FALSE}, content : {NoneText}]

----------------------------------------------------------------------------
VARIABLES
    pc,          \* where each request's handler is
    form,        \* request.form['video_url']
    video_url,   \* the stripped URL
    file_path,   \* download_audio's file_path
    audio_file,  \* the handler's audio_file
    transcript,  \* the handler's transcript
    response,    \* the page and status the handler returns
    fs,          \* the files under temp/
    temp_dir,    \* whether temp/ exists
    opened,      \* whose file the transcriber opened (0: none)
    log          \* per request, the calls made and what they answered

vars ==
    <<pc, form, video_url, file_path, audio_file, transcript, response, fs,
      temp_dir, opened, log>>

Ev(ev, res) == [ev |-> ev, res |-> res]

Logged(r, ev, res) == \E i \in DOMAIN log[r] : log[r][i] = Ev(ev, res)

Called(r, ev) == \E i \in DOMAIN log[r] : log[r][i].ev = ev

Count(r, ev) == Cardinality({i \in DOMAIN log[r] : log[r][i].ev = ev})

Init ==
    /\ pc = [r \in Reqs |-> "idle"]
    /\ form = [r \in Reqs |-> <<>>]
    /\ video_url = [r \in Reqs |-> <<>>]
    /\ file_path = [r \in Reqs |-> None]
    /\ audio_file = [r \in Reqs |-> None]
    /\ transcript = [r \in Reqs |-> NoneText]
    /\ response = [r \in Reqs |-> NoPage]
    /\ fs = [p \in Paths |-> NoFile]
    /\ temp_dir = FALSE
    /\ opened = [r \in Reqs |-> 0]
    /\ log = [r \in Reqs |-> <<>>]

----------------------------------------------------------------------------
\* Exception mapping

\* No clause for DownloadError: every exception is re-raised as it is.
download_audio_except_reraise(e) == e

\* except clauses of download_audio
download_audio_except(e) ==
    IF e.type = "DownloadError"
    THEN ValueError("Error downloading video. Please check the URL and try again.")
    ELSE e

\* The last clause re-raises instead of raising its own ValueError.
transcribe_audio_except_reraise(e) ==
    CASE e.type = "AuthenticationError" ->
            ValueError("Authentication error with the transcription service.")
      [] e.type = "RateLimitError" ->
            ValueError("Rate limit exceeded. Please try again later.")
      [] OTHER -> e

\* except clauses of transcribe_audio
transcribe_audio_except(e) ==
    CASE e.type = "AuthenticationError" ->
            ValueError("Authentication error with the transcription service.")
      [] e.type = "RateLimitError" ->
            ValueError("Rate limit exceeded. Please try again later.")
      [] OTHER ->
            ValueError("Error processing audio. Please try again.")

\* No clause for RateLimitError: it falls into the last clause.
summarize_text_except_no_rate_limit(e) ==
    CASE e.type = "AuthenticationError" -> e
      [] OTHER ->
            ValueError("Error generating summary. Please try again.")

\* except clauses of summarize_text
summarize_text_except(e) ==
    CASE e.type = "AuthenticationError" -> e
      [] e.type = "RateLimitError" ->
            ValueError("Rate limit exceeded. Please try again later.")
      [] OTHER ->
            ValueError("Error generating summary. Please try again.")

\* except clauses of the handler
summarize_except(e) ==
    IF IsValueError(e)
    THEN Page(400, ErrorOf(e.msg))
    ELSE Page(500,
              Fixed("An error occurred while processing your request. Please try again."))

\* An exception reaches the handler: its page, then the finally block.
Raise(r, e, events) ==
    /\ response' = [response EXCEPT ![r] = summarize_except(e)]
    /\ log' = [log EXCEPT ![r] = @ \o events]
    /\ pc' = [pc EXCEPT ![r] = "finally"]

----------------------------------------------------------------------------
\* The handler, step by step.  A step is what one thread does between two
\* points where another request's file operations can come in between.

\* summarize, up to the try block: strip the field, reject an empty one.
summarize(r, urls) ==
    /\ pc[r] = "idle"
    /\ \E u \in urls :
        /\ form' = [form EXCEPT ![r] = u]
        /\ video_url' = [video_url EXCEPT ![r] = strip(u)]
        /\ IF strip(u) = <<>>
           THEN /\ response' = [response EXCEPT ![r] =
                      Page(400, Fixed("Error: Please provide a YouTube URL"))]
                /\ pc' = [pc EXCEPT ![r] = "done"]
           ELSE /\ response' = response
                /\ pc' = [pc EXCEPT ![r] = "download"]
    /\ audio_file' = [audio_file EXCEPT ![r] = None]
    /\ UNCHANGED <<file_path, transcript, fs, temp_dir, opened, log>>

\* download_audio without the validation: nothing is rejected.
download_audio_rejects_never(url) == FALSE

\* The guard of download_audio: "if not validate_youtube_url(video_url)".
download_audio_rejects(url) == ~validate_youtube_url(url)

\* download_audio up to prepare_filename: validation, mkdir, extract_info.
download_audio(r, outcomes) ==
    /\ pc[r] = "download"
    /\ IF download_audio_rejects(video_url[r])
       THEN /\ Raise(r, ValueError("Invalid YouTube URL"),
                     <<Ev("call download_audio", "")>>)
            /\ UNCHANGED <<fs, temp_dir, file_path>>
       ELSE /\ temp_dir' = TRUE
            /\ \E o \in outcomes :
                LET path == prepare_filename(o.ext)
                    evs  == <<Ev("call download_audio", ""),
                              Ev("downloader",
                                 IF o.exc = "" THEN "returned" ELSE o.exc)>>
                IN  /\ fs' = IF o.wrote
                             THEN [fs EXCEPT ![path] = File(r, o.size)]
                             ELSE fs
                    /\ IF o.exc # ""
                       THEN /\ Raise(r, download_audio_except(
                                          Exc(o.exc, RawDownloaderText)), evs)
                            /\ UNCHANGED file_path
                       ELSE /\ file_path' = [file_path EXCEPT ![r] = path]
                            /\ log' = [log EXCEPT ![r] = @ \o evs]
                            /\ pc' = [pc EXCEPT ![r] = "verify"]
                            /\ UNCHANGED response
    /\ UNCHANGED <<form, video_url, audio_file, transcript, opened>>

\* download_audio from the check of the file to its return.
download_audio_verify(r) ==
    /\ pc[r] = "verify"
    /\ IF ~fs[file_path[r]].exists \/ fs[file_path[r]].size = 0
       THEN /\ Raise(r, download_audio_except(
                          ValueError("Failed to download audio content")),
                     <<Ev("verify", "missing or empty")>>)
            /\ UNCHANGED audio_file
       ELSE /\ audio_file' = [audio_file EXCEPT ![r] = file_path[r]]
            /\ log' = [log EXCEPT ![r] =
                          Append(@, Ev("return download_audio", ""))]
            /\ pc' = [pc EXCEPT ![r] = "transcribe"]
            /\ UNCHANGED response
    /\ UNCHANGED <<form, video_url, file_path, transcript, fs, temp_dir,
                   opened>>

\* transcribe_audio, the check before the try block.
transcribe_audio(r) ==
    /\ pc[r] = "transcribe"
    /\ IF ~fs[audio_file[r]].exists
       THEN Raise(r, Exc("FileNotFoundError", "Audio file not found"),
                  <<Ev("call transcribe_audio", "not found")>>)
       ELSE /\ log' = [log EXCEPT ![r] =
                          Append(@, Ev("call transcribe_audio", ""))]
            /\ pc' = [pc EXCEPT ![r] = "open"]
            /\ UNCHANGED response
    /\ UNCHANGED <<form, video_url, file_path, audio_file, transcript, fs,
                   temp_dir, opened>>

\* The except clauses log the failure and fall through: the function
\* returns None and the handler goes on.
transcribe_audio_swallow(r, e, events) ==
    /\ transcript' = [transcript EXCEPT ![r] = NoneText]
    /\ log' = [log EXCEPT ![r] = @ \o events]
    /\ pc' = [pc EXCEPT ![r] = "summarize"]
    /\ UNCHANGED response

\* A failure inside the try block of transcribe_audio leaves the function
\* as the exception its except clauses raise.
transcribe_audio_raise(r, e, events) ==
    /\ Raise(r, transcribe_audio_except(e), events)
    /\ UNCHANGED transcript

\* transcribe_audio, the try block: open the file, call the service.
transcribe_audio_open(r, outcomes) ==
    /\ pc[r] = "open"
    /\ IF ~fs[audio_file[r]].exists
       THEN /\ transcribe_audio_raise(r, Exc("FileNotFoundError", RawOsText),
                                      <<Ev("open", "FileNotFoundError")>>)
            /\ UNCHANGED opened
       ELSE /\ opened' = [opened EXCEPT ![r] = fs[audio_file[r]].owner]
            /\ \E o \in outcomes :
                LET evs == <<Ev("open", ""),
                             Ev("speech-to-text",
                                IF o.exc # "" THEN o.exc
                                ELSE IF o.hasText THEN "text" ELSE "no text")>>
                IN  IF o.exc # ""
                    THEN transcribe_audio_raise(r, Exc(o.exc, RawSpeechText),
                                                evs)
                    ELSE IF ~o.hasText
                    THEN transcribe_audio_raise(r, ValueError(
                                "Invalid response from transcription service"),
                                evs)
                    ELSE /\ transcript' = [transcript EXCEPT ![r] = o.text]
                         /\ log' = [log EXCEPT ![r] =
                                @ \o evs \o <<Ev("return transcribe_audio", "")>>]
                         /\ pc' = [pc EXCEPT ![r] = "summarize"]
                         /\ UNCHANGED response
    /\ UNCHANGED <<form, video_url, file_path, audio_file, fs, temp_dir>>

\* The guard without its second half: only None and "" are caught.
summarize_text_short_circuits_no_strip(text) == Falsy(text)

\* The guard of summarize_text: "if not text or not text.strip()".
summarize_text_short_circuits(text) ==
    Falsy(text) \/ strip(text.chars) = <<>>

\* summarize_text, and the handler's return of the page.
summarize_text(r, outcomes) ==
    /\ pc[r] = "summarize"
    /\ IF summarize_text_short_circuits(transcript[r])
       THEN /\ response' = [response EXCEPT ![r] =
                              Page(200, Fixed("No content to summarize."))]
            /\ log' = [log EXCEPT ![r] = @ \o
                          <<Ev("call summarize_text", ""),
                            Ev("return summarize_text", "placeholder")>>]
            /\ pc' = [pc EXCEPT ![r] = "finally"]
       ELSE \E o \in outcomes :
                LET evs == <<Ev("call summarize_text", ""),
                             Ev("text-generation",
                                IF o.exc # "" THEN o.exc
                                ELSE IF o.hasChoices /\ ~Falsy(o.content)
                                THEN "completion" ELSE "no completion")>>
                IN  IF o.exc # ""
                    THEN Raise(r, summarize_text_except(
                                    Exc(o.exc, RawCompletionText)), evs)
                    ELSE IF ~o.hasChoices \/ Falsy(o.content)
                    THEN Raise(r, summarize_text_except(ValueError(
                                    "Empty response from summarization service")),
                               evs)
                    ELSE /\ response' = [response EXCEPT ![r] =
                                Page(200, Completion(strip(o.content.chars)))]
                         /\ log' = [log EXCEPT ![r] = @ \o evs \o
                                <<Ev("return summarize_text", "completion")>>]
                         /\ pc' = [pc EXCEPT ![r] = "finally"]
    /\ UNCHANGED <<form, video_url, file_path, audio_file, transcript, fs,
                   temp_dir, opened>>

\* cleanup_files(file_path): os.remove succeeds (removed) or raises, which
\* is logged and swallowed.
cleanup_files(files, path, removed) ==
    IF path # None /\ files[path].exists /\ removed
    THEN [files EXCEPT ![path] = NoFile]
    ELSE files

\* The finally block of the handler.
summarize_finally(r) ==
    /\ pc[r] = "finally"
    /\ IF audio_file[r] # None /\ fs[audio_file[r]].exists
       THEN \E removed \in BOOLEAN :
                /\ fs' = cleanup_files(fs, audio_file[r], removed)
                /\ log' = [log EXCEPT ![r] = Append(@,
                              Ev("cleanup",
                                 IF removed THEN "removed" ELSE "failed"))]
       ELSE UNCHANGED <<fs, log>>
    /\ pc' = [pc EXCEPT ![r] = "done"]
    /\ UNCHANGED <<form, video_url, file_path, audio_file, transcript,
                   response, temp_dir, opened>>

----------------------------------------------------------------------------
\* One request in flight, every kind of input.
Next ==
    \E r \in Solo :
        \/ summarize(r, Urls)
        \/ download_audio(r, DownloaderOutcomes(Exts))
        \/ download_audio_verify(r)
        \/ transcribe_audio(r)
        \/ transcribe_audio_open(r, SpeechOutcomes(Transcripts))
        \/ summarize_text(r, CompletionOutcomes(Contents))
        \/ summarize_finally(r)

Spec == Init /\ [][Next]_vars

\* Thread per request: NumReqs requests in flight.
NextThreaded ==
    \E r \in Reqs :
        \/ summarize(r, FewUrls)
        \/ download_audio(r, DownloaderOutcomes(FewExts))
        \/ download_audio_verify(r)
        \/ transcribe_audio(r)
        \/ transcribe_audio_open(r, SpeechOutcomes(FewTranscripts))
        \/ summarize_text(r, CompletionOutcomes(FewContents))
        \/ summarize_finally(r)

SpecThreaded == Init /\ [][NextThreaded]_vars

----------------------------------------------------------------------------
\* Properties

\* The handler has produced its page (the finally block may still be due).
Answered(r) == pc[r] \in {"finally", "done"}

\* The handler has returned.
Returned(r) == pc[r] = "done"

\* Every character is whitespace (so is the empty string).
AllWhitespace(s) == \A i \in 1..Len(s) : s[i] \in Whitespace

\* In the log of r, every ev is preceded by a before.
Precedes(r, before, ev) ==
    \A j \in DOMAIN log[r] :
        log[r][j].ev = ev =>
            \E i \in 1..(j - 1) : log[r][i].ev = before

StageCalls == {"call download_audio", "call transcribe_audio",
               "call summarize_text"}

RemoteCalls == {"downloader", "speech-to-text", "text-generation"}

CheckUrlMessage ==
    "Error downloading video. Please check the URL and try again."

GenericMessage ==
    "An error occurred while processing your request. Please try again."

RateLimitMessage == "Rate limit exceeded. Please try again later."

DownloaderRaised(r) ==
    \E t \in {"DownloadError", "ValueError", "OSError"} :
        Logged(r, "downloader", t)

\* C1: when the handler has returned and no os.remove failed, no file that
\* this request's download wrote exists any more, whatever the outcome.
C1_WrittenFilesRemoved ==
    \A r \in Reqs :
        (Returned(r) /\ ~Logged(r, "cleanup", "failed")) =>
            \A p \in Paths : ~(fs[p].exists /\ fs[p].owner = r)

\* C2: per request each stage and each remote service is called at most
\* once, transcribe_audio only after download_audio returned, summarize_text
\* only after transcribe_audio returned, and a failed fetch is followed by
\* no call of the transcriber or the summarizer.
C2_StagesInOrder ==
    \A r \in Reqs :
        /\ \A ev \in StageCalls \cup RemoteCalls : Count(r, ev) <= 1
        /\ Precedes(r, "call download_audio", "downloader")
        /\ Precedes(r, "return download_audio", "call transcribe_audio")
        /\ Precedes(r, "call transcribe_audio", "speech-to-text")
        /\ Precedes(r, "return transcribe_audio", "call summarize_text")
        /\ Precedes(r, "call summarize_text", "text-generation")
        /\ (Answered(r) /\ ~Called(r, "return download_audio")) =>
                \A ev \in {"call transcribe_audio", "speech-to-text",
                           "call summarize_text", "text-generation"} :
                    Count(r, ev) = 0
        /\ (Answered(r) /\ ~Called(r, "return transcribe_audio")) =>
                /\ Count(r, "call summarize_text") = 0
                /\ Count(r, "text-generation") = 0

\* One request went through all three stages, another stopped at a failed
\* fetch.
C2_Witness ==
    \E r1, r2 \in Reqs :
        /\ Returned(r1) /\ Returned(r2)
        /\ Called(r1, "text-generation") /\ response[r1].status = 200
        /\ DownloaderRaised(r2)

\* C3: a URL that is empty after trimming or that validate_youtube_url
\* rejects is answered with 400 and the message of the failed validation;
\* no remote service is called and no file written for it, and the
\* downloader is only ever called with a URL that passed validation.
C3_InvalidInputRejected ==
    \A r \in Reqs :
        /\ (pc[r] # "idle" /\ AllWhitespace(form[r])) =>
                /\ response[r] =
                     Page(400, Fixed("Error: Please provide a YouTube URL"))
                /\ log[r] = <<>>
                /\ \A p \in Paths : fs[p].owner # r
        /\ (Answered(r) /\ ~AllWhitespace(form[r])
                /\ ~validate_youtube_url(video_url[r])) =>
                /\ response[r] = Page(400, ErrorOf("Invalid YouTube URL"))
                /\ \A ev \in RemoteCalls : ~Called(r, ev)
                /\ \A p \in Paths : fs[p].owner # r
        /\ (\E ev \in RemoteCalls : Called(r, ev)) =>
                /\ video_url[r] # <<>>
                /\ validate_youtube_url(video_url[r])

\* A URL with a ten-character identifier has been rejected.
C3_Witness ==
    \E r \in Reqs :
        /\ Returned(r)
        /\ form[r] = UrlTenChars
        /\ response[r].status = 400

C5_AuthErrorIs400 ==
    \A r \in Reqs :
        (Answered(r) /\ (Logged(r, "speech-to-text", "AuthenticationError")
                         \/ Logged(r, "text-generation",
                                   "AuthenticationError"))) =>
            /\ response[r].status = 400
            /\ response[r].summary.msg \notin RawTexts

\* C6 as stated: a rate-limit error of either service is answered with 429.
C6_RateLimitIs429 ==
    \A r \in Reqs :
        (Answered(r) /\ (Logged(r, "speech-to-text", "RateLimitError")
                         \/ Logged(r, "text-generation", "RateLimitError"))) =>
            response[r].status = 429

\* C6 amended: a rate-limit error of either service is answered with 400
\* and "Error: Rate limit exceeded. Please try again later."
C6_RateLimitIs400 ==
    \A r \in Reqs :
        (Answered(r) /\ (Logged(r, "speech-to-text", "RateLimitError")
                         \/ Logged(r, "text-generation", "RateLimitError"))) =>
            response[r] = Page(400, ErrorOf(RateLimitMessage))

\* Both services have answered a request with a rate-limit error.
C6_Witness ==
    \E r1, r2 \in Reqs :
        /\ Returned(r1) /\ Logged(r1, "speech-to-text", "RateLimitError")
        /\ Returned(r2) /\ Logged(r2, "text-generation", "RateLimitError")

\* The failures C7 is about, for the transcriber and for the summarizer.
TranscriptionFailed(r) ==
    \/ Logged(r, "speech-to-text", "no text")
    \/ Logged(r, "speech-to-text", "APIError")
    \/ Logged(r, "open", "FileNotFoundError")

SummarizationFailed(r) ==
    \/ Logged(r, "text-generation", "no completion")
    \/ Logged(r, "text-generation", "APIError")

NotFound(r) == Logged(r, "call transcribe_audio", "not found")

\* C7 as stated: an invalid response or another remote error of either
\* service, and a file missing at the call of the transcriber, is answered
\* with 500.
C7_StageFailureIs500 ==
    \A r \in Reqs :
        (Answered(r) /\ (TranscriptionFailed(r) \/ SummarizationFailed(r)
                         \/ NotFound(r))) =>
            response[r].status = 500

\* C7 amended: an invalid response or another remote or transport error is
\* answered with 400 and the stage's own message ("Error processing audio.
\* Please try again." or "Error generating summary. Please try again.");
\* a file missing at the call of the transcriber is answered with 500 and
\* the generic message.
C7_StageFailureIs400 ==
    \A r \in Reqs :
        Answered(r) =>
            /\ TranscriptionFailed(r) =>
                    response[r] = Page(400,
                        ErrorOf("Error processing audio. Please try again."))
            /\ SummarizationFailed(r) =>
                    response[r] = Page(400,
                        ErrorOf("Error generating summary. Please try again."))
            /\ NotFound(r) =>
                    response[r] = Page(500, Fixed(GenericMessage))

\* One request got a response without text, another found its file gone.
C7_Witness ==
    \E r1, r2 \in Reqs :
        /\ Returned(r1) /\ Logged(r1, "speech-to-text", "no text")
        /\ Returned(r2) /\ NotFound(r2)

\* C8: the text of an exception of an external service never appears in
\* the page.
C8_NoRawText ==
    \A r \in Reqs : response[r].summary.msg \notin RawTexts

\* C9: requests in flight never hold the same file path, and the file the
\* transcriber opens is the one the request's own download wrote.
C9_AssetNotShared ==
    /\ \A r1, r2 \in Reqs :
        (r1 # r2 /\ pc[r1] \notin {"idle", "done"}
                 /\ pc[r2] \notin {"idle", "done"}
                 /\ file_path[r1] # None) =>
            file_path[r1] # file_path[r2]
    /\ \A r \in Reqs : opened[r] \in {0, r}

\* None, or whitespace only (the empty string included).
Blank(text) == text.isNone \/ AllWhitespace(text.chars)

\* C10: for a transcript that is None, empty or whitespace only, the
\* summarizer makes no call of the text-generation service and the handler
\* answers 200 with "No content to summarize."
C10_BlankTranscriptPlaceholder ==
    \A r \in Reqs :
        (Answered(r) /\ Called(r, "call summarize_text")
                     /\ Blank(transcript[r])) =>
            /\ Count(r, "text-generation") = 0
            /\ response[r] = Page(200, Fixed("No content to summarize."))

\* A whitespace-only transcript has been summarized.
C10_Witness ==
    \E r \in Reqs :
        /\ Returned(r)
        /\ transcript[r] = Str(TextBlank)
        /\ Logged(r, "return summarize_text", "placeholder")

====
